---- MODULE Spec2Model ----
(***************************************************************************)
(* The WebSocket ingest relay of server.js: one session per publisher      *)
(* connection on /youtube-stream, the process-wide set of active RTMP      *)
(* keys, the WebM (EBML) header check that gates the ffmpeg spawn, the     *)
(* per-session idle interval, and the ffmpeg child process as the session  *)
(* sees it (stdin writes, stdin end, kill, 'close' and stdin 'error').     *)
(*                                                                         *)
(* Node runs every callback to completion on one thread, so each handler   *)
(* is one atomic action.  The code reads the clock only in the difference *)
(* Date.now() - lastChunkAt and compares it with the timeout alone, so the *)
(* state holds that difference, in milliseconds on the grid of the 5000 ms *)
(* interval and saturated one period above the timeout.                    *)
(***************************************************************************)
EXTENDS Integers, Sequences, FiniteSets, TLC

\* ------------------------------------------------------------------ bounds
\* messages delivered to one connection
MaxMsgs == 3
\* bytes one connection may deliver in binary frames when every byte string
\* is tried as a frame
MaxBytes == 5

\* --------------------------------------------------------------- constants
IDLE_TIMEOUT_MS == 20000
TICK_MS == 5000

\* the differences of times saturate here: above the timeout they all compare
\* alike
AgeCap == IDLE_TIMEOUT_MS + TICK_MS

Sessions == {"s1", "s2", "s3"}

\* the value of a variable that holds null
Null == <<>>

\* 0x1A 0x45 0xDF 0xA3
EBML == <<26, 69, 223, 163>>

\* a URL is its sequence of path segments
Urls == {<<"live2", "k1">>, <<"live2", "k2">>, <<"app", "k1">>}

\* binary payloads: one that is no header, the header split in two, the bare
\* four signature bytes, and the signature followed by data
Chunks == {<<0>>, <<26, 69>>, <<223, 163>>, EBML, EBML \o <<0>>}

\* A message as ws delivers it: the isBinary flag, whether its text parses as
\* JSON, the rtmpUrl member of the parsed object (Null when absent) and its
\* bytes (a JSON text starts with '{', 0x7B).
InitMsgs ==
    [isBinary : BOOLEAN, json : {TRUE}, rtmpUrl : Urls \cup {Null}, bytes : {<<123>>}]

GarbageMsgs ==
    [isBinary : {FALSE}, json : {FALSE}, rtmpUrl : {Null}, bytes : {<<0>>}]

DataMsgs ==
    [isBinary : {TRUE}, json : {FALSE}, rtmpUrl : {Null}, bytes : Chunks]

Messages == InitMsgs \cup GarbageMsgs \cup DataMsgs

\* one publisher's repertoire: a valid init, a text that is no JSON, a binary
\* chunk that is no header and one that is
LifeMsgs ==
    {m \in Messages :
        \/ m.json /\ ~m.isBinary /\ m.rtmpUrl = <<"live2", "k1">>
        \/ ~m.json /\ ~m.isBinary
        \/ ~m.json /\ m.isBinary /\ m.bytes \in {<<0>>, EBML \o <<0>>}}

VARIABLES
    activeKeys,      \* const activeKeys = new Set()
    wsState,         \* ws.readyState of each connection: none, open, closing, closed
    sent,            \* the notices ws.send delivered to each publisher, in order
    ffmpeg,          \* let ffmpeg: TRUE when it refers to the child process
    started,         \* let started
    idleFor,         \* Date.now() - lastChunkAt
    ffmpegError,     \* let ffmpegError
    initialBuffer,   \* let initialBuffer: sequence of chunks
    headerReceived,  \* let headerReceived
    rtmpKey,         \* let rtmpKey
    timerOn,         \* idleInterval is set and not cleared
    tickDue,         \* the interval callback is due at the current time
    proc,            \* the child process: none, running, exited, failed (not spawned)
    stdinWritable,   \* ffmpeg.stdin.writable
    stdinErrored,    \* ffmpeg.stdin has emitted 'error'
    stdinEnds,       \* calls of ffmpeg.stdin.end()
    kills,           \* calls of ffmpeg.kill('SIGINT')
    spawns,          \* calls of spawn('ffmpeg', ...)
    procIn,          \* the bytes written to ffmpeg.stdin, in order
    rxCount,         \* messages delivered to the connection
    dataAge,         \* Date.now() - the time the last binary frame after init arrived
    rxData,          \* the bytes of the binary frames that arrived after init, while
                     \* ffmpeg.stdin was not yet created or was writable, in order
    rxBinary         \* isBinary of the last message delivered to the connection

vars ==
    <<activeKeys, wsState, sent, ffmpeg, started, idleFor, ffmpegError,
      initialBuffer, headerReceived, rtmpKey, timerOn, tickDue, proc,
      stdinWritable, stdinErrored, stdinEnds, kills, spawns, procIn, rxCount,
      dataAge, rxData, rxBinary>>

wsVars == <<wsState, sent>>
sessVars == <<ffmpeg, started, idleFor, ffmpegError, initialBuffer, headerReceived, rtmpKey>>
timerVars == <<timerOn, tickDue>>
procVars == <<proc, stdinWritable, stdinErrored, stdinEnds, kills, spawns, procIn>>
rxVars == <<rxCount, dataAge, rxData, rxBinary>>

\* ------------------------------------------------------------ pure helpers

RECURSIVE Concat(_)
\* Buffer.concat(initialBuffer.map(...))
Concat(chunks) ==
    IF chunks = <<>> THEN <<>> ELSE Head(chunks) \o Concat(Tail(chunks))

\* the header check with the comparison of the fourth byte left out
MatchesThreeBytes(concat) ==
    /\ Len(concat) > 4
    /\ concat[1] = 26
    /\ concat[2] = 69
    /\ concat[3] = 223

\* the header check with the length test alone
MatchesLengthOnly(concat) == Len(concat) > 4

\* concat.length > 4 && concat[0] === 0x1A && ... && concat[3] === 0xA3
Matches(concat) ==
    /\ Len(concat) > 4
    /\ concat[1] = 26
    /\ concat[2] = 69
    /\ concat[3] = 223
    /\ concat[4] = 163

RECURSIVE Live2At(_, _)
\* index of the first "live2" segment that has something after it, 0 if none
Live2At(url, i) ==
    IF i >= Len(url) THEN 0
    ELSE IF url[i] = "live2" THEN i
    ELSE Live2At(url, i + 1)

\* rtmpUrl.match(/live2\/(.+)$/): keyMatch ? keyMatch[1] : null
KeyOf(url) ==
    IF Live2At(url, 1) = 0 THEN Null
    ELSE SubSeq(url, Live2At(url, 1) + 1, Len(url))

\* ws.send(...): delivered only while the connection is OPEN
Send(snt, st, s, notice) ==
    IF st[s] = "open" THEN [snt EXCEPT ![s] = Append(@, notice)] ELSE snt

\* ws.close(): starts the closing handshake of an OPEN connection
Close(st, s) ==
    IF st[s] = "open" THEN [st EXCEPT ![s] = "closing"] ELSE st

\* -------------------------------------------------------------------- Init

Init ==
    /\ activeKeys = {}
    /\ wsState = [s \in Sessions |-> "none"]
    /\ sent = [s \in Sessions |-> <<>>]
    /\ ffmpeg = [s \in Sessions |-> FALSE]
    /\ started = [s \in Sessions |-> FALSE]
    /\ idleFor = [s \in Sessions |-> 0]
    /\ ffmpegError = [s \in Sessions |-> FALSE]
    /\ initialBuffer = [s \in Sessions |-> <<>>]
    /\ headerReceived = [s \in Sessions |-> FALSE]
    /\ rtmpKey = [s \in Sessions |-> Null]
    /\ timerOn = [s \in Sessions |-> FALSE]
    /\ tickDue = [s \in Sessions |-> FALSE]
    /\ proc = [s \in Sessions |-> "none"]
    /\ stdinWritable = [s \in Sessions |-> FALSE]
    /\ stdinErrored = [s \in Sessions |-> FALSE]
    /\ stdinEnds = [s \in Sessions |-> 0]
    /\ kills = [s \in Sessions |-> 0]
    /\ spawns = [s \in Sessions |-> 0]
    /\ procIn = [s \in Sessions |-> <<>>]
    /\ rxCount = [s \in Sessions |-> 0]
    /\ dataAge = [s \in Sessions |-> 0]
    /\ rxData = [s \in Sessions |-> <<>>]
    /\ rxBinary = [s \in Sessions |-> FALSE]

\* ----------------------------------------------------------------- actions

\* wss.on('connection'): the session's variables and its idle interval
Connect(s) ==
    /\ wsState[s] = "none"
    /\ wsState' = [wsState EXCEPT ![s] = "open"]
    /\ idleFor' = [idleFor EXCEPT ![s] = 0]
    /\ dataAge' = [dataAge EXCEPT ![s] = 0]
    /\ timerOn' = [timerOn EXCEPT ![s] = TRUE]
    /\ UNCHANGED <<activeKeys, sent, ffmpeg, started, ffmpegError, initialBuffer,
                   headerReceived, rtmpKey, tickDue, procVars, rxCount, rxData,
                   rxBinary>>

\* a difference of times one interval period later
Later(age) == IF age + TICK_MS > AgeCap THEN AgeCap ELSE age + TICK_MS

\* the clock reaches the next multiple of the interval period: every interval
\* that is set becomes due, once the callbacks due before have run
Advance ==
    /\ \A s \in Sessions : ~tickDue[s]
    /\ idleFor' = [s \in Sessions |-> IF timerOn[s] THEN Later(idleFor[s]) ELSE idleFor[s]]
    /\ dataAge' = [s \in Sessions |-> IF timerOn[s] THEN Later(dataAge[s]) ELSE dataAge[s]]
    /\ tickDue' = [s \in Sessions |-> timerOn[s]]
    /\ UNCHANGED <<activeKeys, wsVars, ffmpeg, started, ffmpegError, initialBuffer,
                   headerReceived, rtmpKey, timerOn, procVars, rxCount, rxData,
                   rxBinary>>

\* the interval callback with the kill alone: no stdin.end(), no ffmpeg = null
IdleTickKeepsReference(s) ==
    /\ timerOn[s]
    /\ tickDue[s]
    /\ tickDue' = [tickDue EXCEPT ![s] = FALSE]
    /\ IF ffmpeg[s] /\ idleFor[s] > IDLE_TIMEOUT_MS /\ kills[s] = 0
       THEN kills' = [kills EXCEPT ![s] = @ + 1]
       ELSE UNCHANGED kills
    /\ UNCHANGED <<activeKeys, wsVars, started, idleFor, ffmpegError, initialBuffer,
                   headerReceived, rtmpKey, timerOn, proc, stdinErrored, spawns,
                   procIn, rxVars, stdinEnds, stdinWritable, ffmpeg>>

\* the interval callback without the ffmpeg && of its test
IdleTickAnySession(s) ==
    /\ timerOn[s]
    /\ tickDue[s]
    /\ tickDue' = [tickDue EXCEPT ![s] = FALSE]
    /\ IF idleFor[s] > IDLE_TIMEOUT_MS
       THEN /\ stdinEnds' = [stdinEnds EXCEPT ![s] = @ + 1]
            /\ stdinWritable' = [stdinWritable EXCEPT ![s] = FALSE]
            /\ kills' = [kills EXCEPT ![s] = @ + 1]
            /\ ffmpeg' = [ffmpeg EXCEPT ![s] = FALSE]
       ELSE UNCHANGED <<stdinEnds, stdinWritable, kills, ffmpeg>>
    /\ UNCHANGED <<activeKeys, wsVars, started, idleFor, ffmpegError, initialBuffer,
                   headerReceived, rtmpKey, timerOn, proc, stdinErrored, spawns,
                   procIn, rxVars>>

\* the setInterval callback
IdleTick(s) ==
    /\ timerOn[s]
    /\ tickDue[s]
    /\ tickDue' = [tickDue EXCEPT ![s] = FALSE]
    /\ IF ffmpeg[s] /\ idleFor[s] > IDLE_TIMEOUT_MS
       THEN /\ stdinEnds' = [stdinEnds EXCEPT ![s] = @ + 1]
            /\ stdinWritable' = [stdinWritable EXCEPT ![s] = FALSE]
            /\ kills' = [kills EXCEPT ![s] = @ + 1]
            /\ ffmpeg' = [ffmpeg EXCEPT ![s] = FALSE]
       ELSE UNCHANGED <<stdinEnds, stdinWritable, kills, ffmpeg>>
    /\ UNCHANGED <<activeKeys, wsVars, started, idleFor, ffmpegError, initialBuffer,
                   headerReceived, rtmpKey, timerOn, proc, stdinErrored, spawns,
                   procIn, rxVars>>

\* ws.on('message'), if (!started): the init message
OnInit(s, m) ==
    LET url == IF m.json THEN m.rtmpUrl ELSE Null
        key == IF url = Null THEN Null ELSE KeyOf(url)
        notice ==
            IF ~m.json THEN "Invalid init JSON"
            ELSE IF url = Null THEN "Missing rtmpUrl in init message"
            ELSE IF key = Null THEN "Invalid RTMP key in URL"
            ELSE IF key \in activeKeys THEN "RTMP key already in use"
            ELSE "waiting for WebM header"
        accepted == notice = "waiting for WebM header"
    IN  /\ rtmpKey' = IF url = Null THEN rtmpKey ELSE [rtmpKey EXCEPT ![s] = key]
        /\ activeKeys' = IF accepted THEN activeKeys \cup {key} ELSE activeKeys
        /\ started' = [started EXCEPT ![s] = accepted]
        /\ sent' = Send(sent, wsState, s, notice)
        /\ wsState' = IF accepted THEN wsState ELSE Close(wsState, s)
        /\ UNCHANGED <<ffmpeg, idleFor, ffmpegError, initialBuffer, headerReceived,
                       procVars, dataAge, rxData>>

\* the header branch without its initialBuffer = []
OnHeaderChunkKeepsBuffer(s, m) ==
    IF ~m.isBinary
    THEN UNCHANGED <<activeKeys, wsVars, sessVars, procVars, dataAge, rxData>>
    ELSE LET buf == Append(initialBuffer[s], m.bytes)
             concat == Concat(buf)
         IN  /\ dataAge' = [dataAge EXCEPT ![s] = 0]
             /\ rxData' = [rxData EXCEPT ![s] = @ \o m.bytes]
             /\ initialBuffer' = [initialBuffer EXCEPT ![s] = buf]
             /\ IF Matches(concat)
                THEN /\ headerReceived' = [headerReceived EXCEPT ![s] = TRUE]
                     /\ ffmpeg' = [ffmpeg EXCEPT ![s] = TRUE]
                     /\ spawns' = [spawns EXCEPT ![s] = @ + 1]
                     /\ proc' = [proc EXCEPT ![s] = "running"]
                     /\ stdinWritable' = [stdinWritable EXCEPT ![s] = TRUE]
                     /\ ffmpegError' = [ffmpegError EXCEPT ![s] = FALSE]
                     /\ procIn' = [procIn EXCEPT ![s] = @ \o concat]
                     /\ sent' = Send(sent, wsState, s, "ffmpeg started")
                ELSE UNCHANGED <<headerReceived, ffmpeg, spawns, proc, stdinWritable,
                                 ffmpegError, procIn, sent>>
             /\ UNCHANGED <<activeKeys, wsState, started, idleFor, rtmpKey,
                            stdinErrored, stdinEnds, kills>>

\* ws.on('message'), if (!headerReceived): buffer until the EBML header shows,
\* then spawn ffmpeg and write the buffered data to its stdin
OnHeaderChunk(s, m) ==
    IF ~m.isBinary
    THEN UNCHANGED <<activeKeys, wsVars, sessVars, procVars, dataAge, rxData>>
    ELSE LET buf == Append(initialBuffer[s], m.bytes)
             concat == Concat(buf)
         IN  /\ dataAge' = [dataAge EXCEPT ![s] = 0]
             /\ rxData' = [rxData EXCEPT ![s] = @ \o m.bytes]
             /\ IF Matches(concat)
                THEN /\ headerReceived' = [headerReceived EXCEPT ![s] = TRUE]
                     /\ ffmpeg' = [ffmpeg EXCEPT ![s] = TRUE]
                     /\ spawns' = [spawns EXCEPT ![s] = @ + 1]
                     /\ proc' = [proc EXCEPT ![s] = "running"]
                     /\ stdinWritable' = [stdinWritable EXCEPT ![s] = TRUE]
                     /\ ffmpegError' = [ffmpegError EXCEPT ![s] = FALSE]
                     /\ procIn' = [procIn EXCEPT ![s] = @ \o concat]
                     /\ initialBuffer' = [initialBuffer EXCEPT ![s] = <<>>]
                     /\ sent' = Send(sent, wsState, s, "ffmpeg started")
                ELSE /\ initialBuffer' = [initialBuffer EXCEPT ![s] = buf]
                     /\ UNCHANGED <<headerReceived, ffmpeg, spawns, proc, stdinWritable,
                                    ffmpegError, procIn, sent>>
             /\ UNCHANGED <<activeKeys, wsState, started, idleFor, rtmpKey,
                            stdinErrored, stdinEnds, kills>>

\* the streaming branch without its test of ffmpeg and ffmpeg.stdin.writable
OnStreamChunkUnguarded(s, m) ==
    /\ dataAge' = IF m.isBinary THEN [dataAge EXCEPT ![s] = 0] ELSE dataAge
    /\ rxData' = IF m.isBinary /\ stdinWritable[s]
                 THEN [rxData EXCEPT ![s] = @ \o m.bytes]
                 ELSE rxData
    /\ IF ffmpegError[s] \/ ~m.isBinary
       THEN UNCHANGED <<idleFor, procIn>>
       ELSE /\ idleFor' = [idleFor EXCEPT ![s] = 0]
            /\ procIn' = [procIn EXCEPT ![s] = @ \o m.bytes]
    /\ UNCHANGED <<activeKeys, wsVars, ffmpeg, started, ffmpegError, initialBuffer,
                   headerReceived, rtmpKey, proc, stdinWritable, stdinErrored, stdinEnds,
                   kills, spawns>>

\* the streaming branch without its if (!isBinary) return
OnStreamChunkAnyFrame(s, m) ==
    /\ dataAge' = IF m.isBinary THEN [dataAge EXCEPT ![s] = 0] ELSE dataAge
    /\ rxData' = IF m.isBinary /\ stdinWritable[s]
                 THEN [rxData EXCEPT ![s] = @ \o m.bytes]
                 ELSE rxData
    /\ IF ffmpegError[s]
       THEN UNCHANGED <<idleFor, procIn>>
       ELSE /\ idleFor' = [idleFor EXCEPT ![s] = 0]
            /\ procIn' = IF ffmpeg[s] /\ stdinWritable[s]
                         THEN [procIn EXCEPT ![s] = @ \o m.bytes]
                         ELSE procIn
    /\ UNCHANGED <<activeKeys, wsVars, ffmpeg, started, ffmpegError, initialBuffer,
                   headerReceived, rtmpKey, proc, stdinWritable, stdinErrored, stdinEnds,
                   kills, spawns>>

\* ws.on('message'), the rest: forward a binary chunk to ffmpeg.stdin
OnStreamChunk(s, m) ==
    /\ dataAge' = IF m.isBinary THEN [dataAge EXCEPT ![s] = 0] ELSE dataAge
    /\ rxData' = IF m.isBinary /\ stdinWritable[s]
                 THEN [rxData EXCEPT ![s] = @ \o m.bytes]
                 ELSE rxData
    /\ IF ffmpegError[s] \/ ~m.isBinary
       THEN UNCHANGED <<idleFor, procIn>>
       ELSE /\ idleFor' = [idleFor EXCEPT ![s] = 0]
            /\ procIn' = IF ffmpeg[s] /\ stdinWritable[s]
                         THEN [procIn EXCEPT ![s] = @ \o m.bytes]
                         ELSE procIn
    /\ UNCHANGED <<activeKeys, wsVars, ffmpeg, started, ffmpegError, initialBuffer,
                   headerReceived, rtmpKey, proc, stdinWritable, stdinErrored, stdinEnds,
                   kills, spawns>>

\* ws.on('message'): ws emits it while the connection is OPEN and, after the
\* server's own ws.close(), until the closing handshake completes
OnMessage(s, m) ==
    /\ wsState[s] \in {"open", "closing"}
    /\ rxCount[s] < MaxMsgs
    /\ rxCount' = [rxCount EXCEPT ![s] = @ + 1]
    /\ rxBinary' = [rxBinary EXCEPT ![s] = m.isBinary]
    /\ IF ~started[s] THEN OnInit(s, m)
       ELSE IF ~headerReceived[s] THEN OnHeaderChunk(s, m)
       ELSE OnStreamChunk(s, m)
    /\ UNCHANGED timerVars

\* the exit handler without its ws.close()
FfmpegCloseKeepsOpen(s) ==
    /\ proc[s] = "running"
    /\ proc' = [proc EXCEPT ![s] = "exited"]
    /\ stdinWritable' = [stdinWritable EXCEPT ![s] = FALSE]
    /\ ffmpegError' = [ffmpegError EXCEPT ![s] = TRUE]
    /\ ffmpeg' = [ffmpeg EXCEPT ![s] = FALSE]
    /\ sent' = Send(sent, wsState, s, "FFmpeg exited")
    /\ UNCHANGED <<activeKeys, wsState, started, idleFor, initialBuffer,
                   headerReceived, rtmpKey, timerVars, stdinErrored, stdinEnds,
                   kills, spawns, procIn, rxVars>>

\* ffmpeg.on('close'): the child process has exited, on its own or after a kill
FfmpegClose(s) ==
    /\ proc[s] = "running"
    /\ proc' = [proc EXCEPT ![s] = "exited"]
    /\ stdinWritable' = [stdinWritable EXCEPT ![s] = FALSE]
    /\ ffmpegError' = [ffmpegError EXCEPT ![s] = TRUE]
    /\ ffmpeg' = [ffmpeg EXCEPT ![s] = FALSE]
    /\ sent' = Send(sent, wsState, s, "FFmpeg exited")
    /\ wsState' = Close(wsState, s)
    /\ UNCHANGED <<activeKeys, started, idleFor, initialBuffer, headerReceived,
                   rtmpKey, timerVars, stdinErrored, stdinEnds, kills, spawns,
                   procIn, rxVars>>

\* the stdin error handler without its ws.close()
FfmpegStdinErrorKeepsOpen(s) ==
    /\ proc[s] = "running"
    /\ ~stdinErrored[s]
    /\ stdinErrored' = [stdinErrored EXCEPT ![s] = TRUE]
    /\ stdinWritable' = [stdinWritable EXCEPT ![s] = FALSE]
    /\ ffmpegError' = [ffmpegError EXCEPT ![s] = TRUE]
    /\ sent' = Send(sent, wsState, s, "FFmpeg stdin error")
    /\ UNCHANGED <<activeKeys, wsState, ffmpeg, started, idleFor, initialBuffer,
                   headerReceived, rtmpKey, timerVars, proc, stdinEnds, kills,
                   spawns, procIn, rxVars>>

\* ffmpeg.stdin.on('error'): the pipe to the child broke (EPIPE); a stream
\* emits 'error' once and is destroyed
FfmpegStdinError(s) ==
    /\ proc[s] = "running"
    /\ ~stdinErrored[s]
    /\ stdinErrored' = [stdinErrored EXCEPT ![s] = TRUE]
    /\ stdinWritable' = [stdinWritable EXCEPT ![s] = FALSE]
    /\ ffmpegError' = [ffmpegError EXCEPT ![s] = TRUE]
    /\ sent' = Send(sent, wsState, s, "FFmpeg stdin error")
    /\ wsState' = Close(wsState, s)
    /\ UNCHANGED <<activeKeys, ffmpeg, started, idleFor, initialBuffer,
                   headerReceived, rtmpKey, timerVars, proc, stdinEnds, kills,
                   spawns, procIn, rxVars>>

\* the close handler without its if (ffmpeg)
WsCloseUnguarded(s) ==
    /\ wsState[s] \in {"open", "closing"}
    /\ wsState' = [wsState EXCEPT ![s] = "closed"]
    /\ stdinEnds' = [stdinEnds EXCEPT ![s] = @ + 1]
    /\ stdinWritable' = [stdinWritable EXCEPT ![s] = FALSE]
    /\ kills' = [kills EXCEPT ![s] = @ + 1]
    /\ ffmpeg' = [ffmpeg EXCEPT ![s] = FALSE]
    /\ activeKeys' = IF rtmpKey[s] # Null /\ rtmpKey[s] \in activeKeys
                     THEN activeKeys \ {rtmpKey[s]}
                     ELSE activeKeys
    /\ timerOn' = [timerOn EXCEPT ![s] = FALSE]
    /\ tickDue' = [tickDue EXCEPT ![s] = FALSE]
    /\ UNCHANGED <<sent, started, idleFor, ffmpegError, initialBuffer, headerReceived,
                   rtmpKey, proc, stdinErrored, spawns, procIn, rxVars>>

\* the close handler without its activeKeys.delete
WsCloseKeepsKey(s) ==
    /\ wsState[s] \in {"open", "closing"}
    /\ wsState' = [wsState EXCEPT ![s] = "closed"]
    /\ IF ffmpeg[s]
       THEN /\ stdinEnds' = [stdinEnds EXCEPT ![s] = @ + 1]
            /\ stdinWritable' = [stdinWritable EXCEPT ![s] = FALSE]
            /\ kills' = [kills EXCEPT ![s] = @ + 1]
            /\ ffmpeg' = [ffmpeg EXCEPT ![s] = FALSE]
       ELSE UNCHANGED <<stdinEnds, stdinWritable, kills, ffmpeg>>
    /\ timerOn' = [timerOn EXCEPT ![s] = FALSE]
    /\ tickDue' = [tickDue EXCEPT ![s] = FALSE]
    /\ UNCHANGED <<activeKeys, sent, started, idleFor, ffmpegError, initialBuffer,
                   headerReceived, rtmpKey, proc, stdinErrored, spawns, procIn, rxVars>>

\* ws.on('close'): the publisher disconnected, or the closing handshake that
\* ws.close() started has completed
WsClose(s) ==
    /\ wsState[s] \in {"open", "closing"}
    /\ wsState' = [wsState EXCEPT ![s] = "closed"]
    /\ IF ffmpeg[s]
       THEN /\ stdinEnds' = [stdinEnds EXCEPT ![s] = @ + 1]
            /\ stdinWritable' = [stdinWritable EXCEPT ![s] = FALSE]
            /\ kills' = [kills EXCEPT ![s] = @ + 1]
            /\ ffmpeg' = [ffmpeg EXCEPT ![s] = FALSE]
       ELSE UNCHANGED <<stdinEnds, stdinWritable, kills, ffmpeg>>
    /\ activeKeys' = IF rtmpKey[s] # Null /\ rtmpKey[s] \in activeKeys
                     THEN activeKeys \ {rtmpKey[s]}
                     ELSE activeKeys
    /\ timerOn' = [timerOn EXCEPT ![s] = FALSE]
    /\ tickDue' = [tickDue EXCEPT ![s] = FALSE]
    /\ UNCHANGED <<sent, started, idleFor, ffmpegError, initialBuffer, headerReceived,
                   rtmpKey, proc, stdinErrored, spawns, procIn, rxVars>>

\* ------------------------------------------------------------ specification

\* what the publisher of each connection sends when one stream is followed
\* from connection to teardown
Life == [s \in Sessions |-> LifeMsgs]

\* the connection events ws delivers for the connections in S, whose
\* publishers send the messages M[s]
WsEvents(S, M) ==
    \/ \E s \in S : Connect(s)
    \/ \E s \in S : \E m \in M[s] : OnMessage(s, m)
    \/ \E s \in S : WsClose(s)

\* the callbacks of the idle intervals and of the child processes, and the
\* passing of time
Callbacks(S) ==
    \/ \E s \in S : IdleTick(s)
    \/ \E s \in S : FfmpegClose(s)
    \/ \E s \in S : FfmpegStdinError(s)
    \/ Advance

\* one connection from its arrival to its teardown
Next == WsEvents({"s1"}, Life) \/ Callbacks({"s1"})

Spec == Init /\ [][Next]_vars

\* the closing handshake that ws.close() started completes (ws destroys the
\* socket when its close timer runs out), and 'close' is emitted
ClosingDone(s) == wsState[s] = "closing" /\ WsClose(s)

\* timers fire, time passes and closing handshakes complete; nothing makes a
\* publisher send or disconnect, or a child process exit
Fairness(S) ==
    /\ WF_vars(Advance)
    /\ \A s \in S : WF_vars(IdleTick(s))
    /\ \A s \in S : WF_vars(ClosingDone(s))

FairSpec == Spec /\ Fairness({"s1"})

\* --------------------------------------------------------------------- pair
\* Two publishers of the same key, one after the other: s1 sends its init
\* and chunks that start with the header; s2 connects once the process of s1
\* has exited, and sends its init only.
PairMsgs ==
    [s \in Sessions |->
        IF s = "s1" THEN {m \in LifeMsgs : m.json \/ Matches(m.bytes)}
        ELSE IF s = "s2" THEN {m \in LifeMsgs : m.json}
        ELSE {}]

PairNext ==
    \/ Connect("s1")
    \/ proc["s1"] = "exited" /\ Connect("s2")
    \/ \E s \in {"s1", "s2"} : \E m \in PairMsgs[s] : OnMessage(s, m)
    \/ \E s \in {"s1", "s2"} : WsClose(s)
    \/ Callbacks({"s1", "s2"})

PairSpec ==
    Init /\ [][PairNext]_vars /\ Fairness({"s1", "s2"})

\* ---------------------------------------------------------------- registry
\* Publishers that contend for two keys: every connection sends init messages
\* only, so no child process is ever spawned.
RegistryMsgs ==
    [s \in Sessions |->
        {m \in Messages : m.json /\ ~m.isBinary /\ KeyOf(m.rtmpUrl) # Null}]

RegistryNext == WsEvents(Sessions, RegistryMsgs)

RegistrySpec == Init /\ [][RegistryNext]_vars

\* ------------------------------------------------------------------ sniffer
\* One publisher that, after a valid init, sends every byte string as a
\* binary frame, MaxBytes bytes in all.
ByteVals == {EBML[i] : i \in 1..Len(EBML)} \cup {0}

FramesOf(n) == UNION {[1..k -> ByteVals] : k \in 0..n}

\* the bytes the connection has delivered in binary frames since its init
Delivered(s) == Len(Concat(initialBuffer[s])) + Len(procIn[s])

SnifferMsgs(s) ==
    {m \in LifeMsgs : m.json}
        \cup [isBinary : {TRUE}, json : {FALSE}, rtmpUrl : {Null},
              bytes : FramesOf(MaxBytes - Delivered(s))]

SnifferNext ==
    \/ WsEvents({"s1"}, [s \in Sessions |-> SnifferMsgs(s)])
    \/ \E s \in {"s1"} : FfmpegClose(s)

SnifferSpec == Init /\ [][SnifferNext]_vars

\* -------------------------------------------------------------------- spawn
\* The header branch when spawn('ffmpeg', ...) fails.  The code has no
\* 'error' listener on the child process and no handler of uncaught
\* exceptions.  Either spawn returns a child that emits 'error' on the next
\* tick (ENOENT, EACCES, EAGAIN): the handler runs to its end, 'ffmpeg
\* started' included, and the unhandled 'error' then ends the Node process
\* before any other callback; or the failure throws inside the handler (spawn
\* itself, or ffmpeg.stdin.on on a child without stdio after EMFILE), and the
\* Node process ends before the acknowledgment.  With the Node process end
\* all its connections, its intervals and the set of active keys.
OnMessageSpawnFails(s, m) ==
    /\ wsState[s] \in {"open", "closing"}
    /\ rxCount[s] < MaxMsgs
    /\ started[s]
    /\ ~headerReceived[s]
    /\ m.isBinary
    /\ Matches(Concat(Append(initialBuffer[s], m.bytes)))
    /\ rxCount' = [rxCount EXCEPT ![s] = @ + 1]
    /\ rxBinary' = [rxBinary EXCEPT ![s] = TRUE]
    /\ dataAge' = [dataAge EXCEPT ![s] = 0]
    /\ rxData' = [rxData EXCEPT ![s] = @ \o m.bytes]
    /\ headerReceived' = [headerReceived EXCEPT ![s] = TRUE]
    /\ spawns' = [spawns EXCEPT ![s] = @ + 1]
    /\ proc' = [proc EXCEPT ![s] = "failed"]
    /\ \E acked \in BOOLEAN :
            sent' = IF acked THEN Send(sent, wsState, s, "ffmpeg started") ELSE sent
    /\ wsState' = [t \in Sessions |-> IF wsState[t] = "none" THEN "none" ELSE "closed"]
    /\ activeKeys' = {}
    /\ timerOn' = [t \in Sessions |-> FALSE]
    /\ tickDue' = [t \in Sessions |-> FALSE]
    /\ UNCHANGED <<ffmpeg, started, idleFor, ffmpegError, initialBuffer, rtmpKey,
                   stdinWritable, stdinErrored, stdinEnds, kills, procIn>>

\* the Node process is running
Up == \A s \in Sessions : proc[s] # "failed"

\* A publisher whose spawn may fail, next to a publisher of another key that
\* sends its init only.
SpawnMsgs ==
    [s \in Sessions |->
        IF s = "s1" THEN LifeMsgs
        ELSE {m \in RegistryMsgs[s] : m.rtmpUrl = <<"live2", "k2">>}]

SpawnNext ==
    \/ Up /\ WsEvents({"s1", "s2"}, SpawnMsgs)
    \/ Up /\ Callbacks({"s1", "s2"})
    \/ \E m \in SpawnMsgs["s1"] : Up /\ OnMessageSpawnFails("s1", m)

SpawnSpec == Init /\ [][SpawnNext]_vars

\* ------------------------------------------------------------------ claims

\* the keys the URLs carry
Keys == {KeyOf(u) : u \in Urls} \ {Null}

\* the close handler of the connection has not run
Live(s) == wsState[s] \in {"open", "closing"}

\* the sessions that passed initialization with key k and are not closed
Holders(k) == {s \in Sessions : started[s] /\ Live(s) /\ rtmpKey[s] = k}

\* C1: key mutual exclusion: in every reachable state, at most one session
\* that has passed initialization and is not yet closed holds a given key.
C1_KeyMutualExclusion ==
    \A k \in Keys : Cardinality(Holders(k)) <= 1

\* the session was refused: its init named a key, and it did not get past
\* AwaitingInit
Refused(s) == ~started[s] /\ rtmpKey[s] # Null

\* C2: of two sessions that sent an init with the same key while both are
\* connected, exactly one gets past AwaitingInit; the other has been sent
\* 'RTMP key already in use' and its close was requested, and its teardown
\* releases nothing, since it never held the key.
C2_DuplicateRefusedNeverHolds ==
    /\ [](\A s, t \in Sessions :
            (s # t /\ Live(s) /\ Live(t) /\ rtmpKey[s] # Null /\ rtmpKey[s] = rtmpKey[t])
                => ~(started[s] /\ started[t]))
    /\ [](\A t \in Sessions :
            (Refused(t) /\ wsState[t] # "none")
                => /\ sent[t] # <<>>
                   /\ sent[t][Len(sent[t])] = "RTMP key already in use"
                   /\ wsState[t] \in {"closing", "closed"})
    /\ [][\A t \in Sessions :
            (Refused(t) /\ Live(t) /\ wsState'[t] = "closed")
                => activeKeys' = activeKeys]_vars

\* C3: the teardown of a failed session never changes another session's
\* registry entry: the key of a session that passed initialization stays in
\* activeKeys until that session itself closes.
C3_HeldKeyStaysRegistered ==
    \A s \in Sessions : (started[s] /\ Live(s)) => rtmpKey[s] \in activeKeys

\* the buffer is at least as long as the signature and starts with it
HasSignature(b) == Len(b) >= Len(EBML) /\ SubSeq(b, 1, Len(EBML)) = EBML

\* the bytes the session has accumulated for the header check
Accumulated(s) == Concat(initialBuffer[s])

\* C6: sniffer completeness: every accumulated buffer of at least the four
\* signature bytes that starts with 1A 45 DF A3 is reported as a match, so no
\* session is left in ValidatingHeader holding such a buffer.
C6_SnifferComplete ==
    \A s \in Sessions :
        (started[s] /\ ~headerReceived[s]) => ~HasSignature(Accumulated(s))

\* C7: sniffer soundness: when the buffer accumulated by a step is shorter
\* than the signature or does not start with it, no match is reported: the
\* session stays in ValidatingHeader, no process is spawned and nothing is
\* acknowledged.
C7_SnifferSound ==
    [][\A s \in Sessions :
        (/\ started[s]
         /\ ~headerReceived[s]
         /\ ~HasSignature(Concat(initialBuffer'[s]) \o procIn'[s]))
            => /\ ~headerReceived'[s]
               /\ proc'[s] = "none"
               /\ procIn'[s] = <<>>
               /\ sent'[s] = sent[s]]_vars

\* a session in ValidatingHeader whose buffer is longer than the signature
\* and does not start with it
C7_Witness ==
    \E s \in Sessions :
        /\ started[s]
        /\ ~headerReceived[s]
        /\ Len(Accumulated(s)) > Len(EBML)
        /\ ~HasSignature(Accumulated(s))

\* the notices the publisher of s has been sent
Notices(s) == {sent[s][i] : i \in 1..Len(sent[s])}

\* C5: a session whose accumulated buffer never matched the signature never
\* spawns a process and never writes to one: where a process was spawned or
\* bytes were written, the header was accepted and the bytes written start
\* with the signature.
C5_NoSpawnBeforeHeader ==
    \A s \in Sessions :
        (spawns[s] > 0 \/ proc[s] # "none" \/ procIn[s] # <<>> \/ stdinWritable[s])
            => (headerReceived[s] /\ HasSignature(procIn[s]))

\* a session that was closed in ValidatingHeader after buffering two chunks
C5_Witness ==
    \E s \in Sessions :
        /\ wsState[s] = "closed"
        /\ started[s]
        /\ ~headerReceived[s]
        /\ Len(initialBuffer[s]) >= 2
        /\ spawns[s] = 0

\* C8: after a successful init, a first binary chunk that does not match and
\* then a chunk that begins with the signature (and is longer than it) start
\* the process: it is spawned and 'ffmpeg started' is sent.
C8_HeaderAfterChunkStarts ==
    \A s \in Sessions :
        (/\ started[s]
         /\ Len(initialBuffer[s]) = 2
         /\ HasSignature(initialBuffer[s][2])
         /\ Len(initialBuffer[s][2]) > Len(EBML))
            => /\ headerReceived[s]
               /\ spawns[s] = 1
               /\ "ffmpeg started" \in Notices(s)

\* the session is Streaming: connected, header accepted, process attached
\* and no error recorded
Streaming(s) ==
    wsState[s] = "open" /\ headerReceived[s] /\ ffmpeg[s] /\ ~ffmpegError[s]

\* C4: when the process exits on its own while its session is Streaming, the
\* session is sent the error notice and its close is requested; the
\* connection is then eventually closed with its key out of activeKeys; and a
\* session that then initializes with a key that is not in activeKeys is
\* accepted.
C4_ExitReleasesKeyForReuse ==
    /\ [][\A s \in Sessions :
            (Streaming(s) /\ proc'[s] = "exited")
                => /\ sent'[s] = Append(sent[s], "FFmpeg exited")
                   /\ wsState'[s] = "closing"]_vars
    /\ \A s \in Sessions :
            (proc[s] = "exited" /\ wsState[s] = "closing")
                ~> (wsState[s] = "closed" /\ rtmpKey[s] \notin activeKeys)
    /\ [][\A t \in Sessions :
            (/\ wsState[t] = "open"
             /\ ~started[t]
             /\ rxCount'[t] > rxCount[t]
             /\ rtmpKey'[t] # Null
             /\ rtmpKey'[t] \notin activeKeys)
                => /\ started'[t]
                   /\ rtmpKey'[t] \in activeKeys'
                   /\ sent'[t] = Append(sent[t], "waiting for WebM header")]_vars

\* the process of s exited without having been asked to, s was sent the
\* notice and is closed, and another session now holds the same key
C4_Witness ==
    \E s, t \in Sessions :
        /\ s # t
        /\ proc[s] = "exited"
        /\ kills[s] = 0
        /\ "FFmpeg exited" \in Notices(s)
        /\ wsState[s] = "closed"
        /\ started[t]
        /\ Live(t)
        /\ rtmpKey[t] = rtmpKey[s]
        /\ rtmpKey[t] \in activeKeys

\* C9: a Streaming session that has received no data chunk for longer than
\* the idle timeout is force-stopped at the tick that finds it so (input
\* closed and SIGINT sent), eventually its key is released and its connection
\* closed, and the input is closed and the signal sent once only.
C9_IdleSessionTornDown ==
    /\ [][\A s \in Sessions :
            (/\ Streaming(s)
             /\ dataAge[s] > IDLE_TIMEOUT_MS
             /\ tickDue[s]
             /\ ~tickDue'[s]
             /\ wsState'[s] = wsState[s])
                => (stdinEnds'[s] = 1 /\ kills'[s] = 1 /\ ~stdinWritable'[s])]_vars
    /\ [](\A s \in Sessions : stdinEnds[s] <= 1 /\ kills[s] <= 1)
    /\ \A s \in Sessions :
            (kills[s] = 1 /\ wsState[s] = "open")
                ~> (wsState[s] = "closed" /\ rtmpKey[s] \notin activeKeys)

\* C10: the idle timer is reset on every received data chunk: the interval
\* callback never stops the process at a tick when a binary chunk was
\* delivered less than the timeout before that tick.
C10_NoStopWithinTimeoutOfData ==
    [][\A s \in Sessions :
        (/\ tickDue[s]
         /\ ~tickDue'[s]
         /\ wsState'[s] = wsState[s]
         /\ kills'[s] > kills[s])
            => dataAge[s] >= IDLE_TIMEOUT_MS]_vars

\* a stop of the process of s has been requested: stdin ended and SIGINT sent
StopRequested(s) == stdinEnds[s] >= 1 /\ kills[s] >= 1

\* C11: stopping never blocks for ever: once a stop of the process has been
\* requested, by the interval callback or by the close handler, the process
\* is eventually terminated, and the session is eventually closed with its
\* key out of activeKeys.
C11_StopEventuallyTerminates ==
    \A s \in Sessions :
        StopRequested(s)
            ~> (/\ proc[s] = "exited"
                /\ wsState[s] = "closed"
                /\ rtmpKey[s] \notin activeKeys)

\* the close handler of s runs in this step
Closes(s) == Live(s) /\ wsState'[s] = "closed"

\* the idle interval of a closed session is cleared
TimerCancelled == \A s \in Sessions : wsState[s] = "closed" => (~timerOn[s] /\ ~tickDue[s])

\* the process of a closed session has exited or has been stopped, and no
\* process is stopped twice
ProcessStoppedOnce ==
    \A s \in Sessions :
        /\ stdinEnds[s] <= 1
        /\ kills[s] <= 1
        /\ (wsState[s] = "closed" /\ proc[s] = "running") => StopRequested(s)

\* the close handler releases the key of a session that holds it, and
\* nothing else
KeyReleasedOnce ==
    \A s \in Sessions :
        Closes(s) =>
            IF started[s]
            THEN rtmpKey[s] \in activeKeys /\ activeKeys' = activeKeys \ {rtmpKey[s]}
            ELSE activeKeys' = activeKeys

\* C12: on every exit path the cleanup happens exactly once per session: the
\* idle interval is cleared, the process is stopped if there is one, and the
\* key is released if the session holds it; no interleaving of the interval
\* callback, the exit callback and the close event does one of them twice or
\* skips one.
C12_CleanupExactlyOnce ==
    /\ []TimerCancelled
    /\ []ProcessStoppedOnce
    /\ [][KeyReleasedOnce]_vars

\* the error notices of the init branch and of the process handlers
InitErrors ==
    {"Invalid init JSON", "Missing rtmpUrl in init message",
     "Invalid RTMP key in URL", "RTMP key already in use"}

ErrorNotices == InitErrors \cup {"FFmpeg exited", "FFmpeg stdin error"}

\* the error notices the publisher of s has been sent
ErrorCount(s) == Cardinality({i \in 1..Len(sent[s]) : sent[s][i] \in ErrorNotices})

\* a failure shows in this step on an open connection: an init is refused,
\* or the process exits or its stdin reports an error
FailsNow(s) ==
    /\ wsState[s] = "open"
    /\ \/ ~started[s] /\ rxCount'[s] > rxCount[s] /\ ~started'[s]
       \/ ~ffmpegError[s] /\ ffmpegError'[s]

\* the interval callback has stopped the process of s for idleness
IdleStopped(s) == StopRequested(s) /\ wsState[s] = "open"

\* C13: for every failure but a transport error the publisher is sent
\* exactly one error notice, before the connection is closed: never two (a
\* stdin error followed by the exit gives one), a failure on an open
\* connection sends the notice and requests the close in the same step, and
\* an idle stop is eventually followed by the notice unless the publisher
\* disconnects first.
C13_OneErrorNoticeBeforeClose ==
    /\ [](\A s \in Sessions :
            /\ ErrorCount(s) <= 1
            /\ ErrorCount(s) = 1
                => /\ wsState[s] \in {"closing", "closed"}
                   /\ sent[s][Len(sent[s])] \in ErrorNotices)
    /\ [][\A s \in Sessions :
            FailsNow(s)
                => /\ Len(sent'[s]) = Len(sent[s]) + 1
                   /\ sent'[s][Len(sent'[s])] \in ErrorNotices
                   /\ wsState'[s] = "closing"]_vars
    /\ \A s \in Sessions :
            IdleStopped(s) ~> (ErrorCount(s) = 1 \/ wsState[s] = "closed")

\* the spawn of s fails in this step
SpawnFailsNow(s) == proc[s] # "failed" /\ proc'[s] = "failed"

\* C14: when the spawn fails on a matching header, the session ends in
\* error: no 'ffmpeg started' is sent, its key is released and its
\* connection closed, and the other sessions go on unaffected.
C14_SpawnFailureContained ==
    /\ [](\A s \in Sessions :
            proc[s] = "failed"
                => /\ "ffmpeg started" \notin Notices(s)
                   /\ wsState[s] = "closed"
                   /\ rtmpKey[s] \notin activeKeys)
    /\ [][\A s, t \in Sessions :
            (s # t /\ SpawnFailsNow(s))
                => /\ wsState'[t] = wsState[t]
                   /\ timerOn'[t] = timerOn[t]
                   /\ (started[t] /\ Live(t) /\ rtmpKey[t] \in activeKeys)
                        => rtmpKey[t] \in activeKeys']_vars

\* the session was sent an init error notice and its close was requested
InitErrored(s) ==
    /\ \E i \in 1..Len(sent[s]) : sent[s][i] \in InitErrors
    /\ wsState[s] \in {"closing", "closed"}

\* C15: Errored is absorbing: once a session has been sent an init error
\* notice and its close has been requested, no message delivered to it adds
\* a key to activeKeys, passes initialization, sends an acknowledgment or
\* spawns a process.
C15_InitErrorAbsorbing ==
    [][\A s \in Sessions :
        (InitErrored(s) /\ rxCount'[s] > rxCount[s])
            => /\ activeKeys' \subseteq activeKeys
               /\ started'[s] = started[s]
               /\ sent'[s] = sent[s]
               /\ spawns'[s] = spawns[s]]_vars

\* the process of s has exited or has been asked to stop
Stopped(s) == proc[s] = "exited" \/ StopRequested(s)

\* C16: a write failure is terminal: once the stdin of the process has
\* reported an error, nothing more is written to it (no retry), the close of
\* an open connection is requested in the same step, and a connection that
\* is not closed yet is eventually closed, with the process stopped and the
\* key out of activeKeys.
C16_WriteFailureTerminal ==
    /\ [][\A s \in Sessions : stdinErrored[s] => procIn'[s] = procIn[s]]_vars
    /\ [][\A s \in Sessions :
            (~stdinErrored[s] /\ stdinErrored'[s])
                => wsState'[s] \in {"closing", "closed"}]_vars
    /\ [](\A s \in Sessions : (stdinErrored[s] /\ wsState[s] = "closed") => Stopped(s))
    /\ \A s \in Sessions :
            (stdinErrored[s] /\ Live(s))
                ~> (/\ wsState[s] = "closed"
                    /\ Stopped(s)
                    /\ rtmpKey[s] \notin activeKeys)

\* the stdin of the process reported an error after the header was written
\* to it, the publisher was sent the notice, and the session is closed with
\* the stop requested and the process still running
C16_Witness ==
    \E s \in Sessions :
        /\ stdinErrored[s]
        /\ proc[s] = "running"
        /\ StopRequested(s)
        /\ wsState[s] = "closed"
        /\ "FFmpeg stdin error" \in Notices(s)
        /\ procIn[s] = EBML \o <<0>>
        /\ rtmpKey[s] # Null
        /\ rtmpKey[s] \notin activeKeys

\* b starts with a
IsPrefix(a, b) == Len(a) <= Len(b) /\ SubSeq(b, 1, Len(a)) = a

\* C17: the bytes written to the process of a session are exactly the bytes
\* of the binary chunks received after initialization, in arrival order and
\* each once: before validation nothing is written and the buffer holds them
\* all; the validating step writes the concatenation of the whole buffer
\* first; afterwards every binary chunk received while stdin is writable is
\* appended, and nothing else.
C17_ForwardedEqualsReceived ==
    /\ [](\A s \in Sessions :
            IF headerReceived[s]
            THEN procIn[s] = rxData[s]
            ELSE procIn[s] = <<>> /\ Concat(initialBuffer[s]) = rxData[s])
    /\ [][\A s \in Sessions :
            /\ (~headerReceived[s] /\ headerReceived'[s])
                => IsPrefix(Concat(initialBuffer[s]), procIn'[s])
            /\ IsPrefix(procIn[s], procIn'[s])]_vars

\* the chunk with the header was written when it validated, and the chunk
\* received next was written after it
C17_Witness ==
    \E s \in Sessions :
        /\ procIn[s] = (EBML \o <<0>>) \o <<0>>
        /\ rxData[s] = procIn[s]
        /\ rxCount[s] = 3
        /\ wsState[s] = "open"

\* C18: the pre-validation buffer is not retained after validation: where
\* the header was accepted or a process was spawned the buffer is empty, and
\* no later step appends to it.
C18_BufferDiscardedAfterValidation ==
    /\ [](\A s \in Sessions :
            (headerReceived[s] \/ spawns[s] > 0 \/ proc[s] # "none")
                => initialBuffer[s] = <<>>)
    /\ [][\A s \in Sessions :
            headerReceived[s] => initialBuffer'[s] = initialBuffer[s]]_vars

\* after the init and two binary frames the header is validated and written
\* to the running process, and the buffer is empty: either it held the first
\* frame until the second validated, or the second came after validation
C18_Witness ==
    \E s \in Sessions :
        /\ headerReceived[s]
        /\ proc[s] = "running"
        /\ rxCount[s] = 3
        /\ dataAge[s] = 0
        /\ procIn[s] = EBML \o <<0>>
        /\ initialBuffer[s] = <<>>

\* a non-binary message is delivered to s, past its init, in this step
TextAfterInit(s) == started[s] /\ rxCount'[s] > rxCount[s] /\ ~rxBinary'[s]

\* C19: a non-binary message received in ValidatingHeader or Streaming is
\* ignored: it leaves the buffer, lastChunkAt, what was written to the
\* process, the process, activeKeys and the phase of the session unchanged,
\* and nothing is sent.
C19_NonBinaryIgnored ==
    [][\A s \in Sessions :
        TextAfterInit(s)
            => /\ initialBuffer'[s] = initialBuffer[s]
               /\ idleFor'[s] = idleFor[s]
               /\ procIn'[s] = procIn[s]
               /\ <<proc[s], stdinWritable[s], stdinEnds[s], kills[s], spawns[s]>>'
                    = <<proc[s], stdinWritable[s], stdinEnds[s], kills[s], spawns[s]>>
               /\ activeKeys' = activeKeys
               /\ rtmpKey'[s] = rtmpKey[s]
               /\ <<started[s], headerReceived[s], ffmpeg[s], ffmpegError[s]>>'
                    = <<started[s], headerReceived[s], ffmpeg[s], ffmpegError[s]>>
               /\ wsState'[s] = wsState[s]
               /\ sent'[s] = sent[s]]_vars

\* a text message was the last one delivered to a Streaming session: only
\* the header chunk has been written, and the idle clock was not reset
C19_Witness ==
    \E s \in Sessions :
        /\ Streaming(s)
        /\ ~rxBinary[s]
        /\ rxCount[s] = 3
        /\ idleFor[s] > 0
        /\ procIn[s] = EBML \o <<0>>

\* C20: no retry within a session: a session spawns at most one process,
\* and once its process has been stopped by the interval callback or the
\* close handler, or has exited, no step writes to a process of the session
\* or spawns one.
C20_NoRetryInSession ==
    /\ [](\A s \in Sessions : spawns[s] <= 1)
    /\ [][\A s \in Sessions :
            (kills[s] >= 1 \/ proc[s] = "exited")
                => (procIn'[s] = procIn[s] /\ spawns'[s] = spawns[s])]_vars

\* a binary chunk arrived on the open connection after the idle stop (it
\* reset the idle clock) and was not written
C20_Witness ==
    \E s \in Sessions :
        /\ kills[s] = 1
        /\ proc[s] = "running"
        /\ wsState[s] = "open"
        /\ rxBinary[s]
        /\ idleFor[s] = 0
        /\ spawns[s] = 1
        /\ procIn[s] = EBML \o <<0>>

\* C21: stop is idempotent: over the interval callback, the exit callback
\* and the close handler, stdin is ended and the signal sent at most once
\* per process, always together and only to a process that was spawned, and
\* no step ends stdin or signals again once the process has been stopped or
\* has exited.
C21_StopIdempotent ==
    /\ [](\A s \in Sessions :
            /\ stdinEnds[s] = kills[s]
            /\ kills[s] <= spawns[s]
            /\ spawns[s] <= 1)
    /\ [][\A s \in Sessions :
            Stopped(s) => (stdinEnds'[s] = stdinEnds[s] /\ kills'[s] = kills[s])]_vars

\* the interval callback stopped the process while the connection was open,
\* the process exited (its notice was delivered), and the close handler then
\* ran without stopping it again
C21_Witness ==
    \E s \in Sessions :
        /\ kills[s] = 1
        /\ stdinEnds[s] = 1
        /\ proc[s] = "exited"
        /\ "FFmpeg exited" \in Notices(s)
        /\ wsState[s] = "closed"

\* the interval callback of s runs in this step
Ticks(s) == tickDue[s] /\ ~tickDue'[s] /\ wsState'[s] = wsState[s]

\* C22: a tick of the interval on a session without a process (before the
\* init, while the header is awaited, or after the process was stopped or
\* has exited) changes nothing: the connection is not closed, no key leaves
\* activeKeys, nothing is sent, and no variable of the session or of its
\* process changes; so no tick takes the key of a session that awaits its
\* header.
C22_TickWithoutProcessNoOp ==
    [][\A s \in Sessions :
        (Ticks(s) /\ ~ffmpeg[s])
            => /\ UNCHANGED <<activeKeys, wsVars, sessVars, procVars, rxVars, timerOn>>
               /\ \A t \in Sessions \ {s} : tickDue'[t] = tickDue[t]]_vars

\* a session that awaits its header, idle for longer than the timeout, whose
\* tick has run: it is open, holds its key and was sent nothing but the
\* acknowledgment of its init
C22_Witness ==
    \E s \in Sessions :
        /\ started[s]
        /\ ~headerReceived[s]
        /\ wsState[s] = "open"
        /\ timerOn[s]
        /\ ~tickDue[s]
        /\ idleFor[s] > IDLE_TIMEOUT_MS
        /\ rtmpKey[s] \in activeKeys
        /\ sent[s] = <<"waiting for WebM header">>
        /\ kills[s] = 0

\* C23: no leaked keys: every key in activeKeys is the key of a session that
\* passed initialization with it and whose close handler has not run, and
\* when no connection is left, activeKeys is empty.
C23_NoLeakedKeys ==
    /\ \A k \in activeKeys : Holders(k) # {}
    /\ (\A s \in Sessions : ~Live(s)) => activeKeys = {}

\* all three connections are closed, two of them had passed initialization
\* with the same key, and activeKeys is empty
C23_Witness ==
    /\ \A s \in Sessions : wsState[s] = "closed"
    /\ \E s, t \in Sessions : s # t /\ started[s] /\ started[t] /\ rtmpKey[s] = rtmpKey[t]
    /\ activeKeys = {}

====
